---------------------------- MODULE Spec2Model ----------------------------
(***************************************************************************)
(* Model of sids/geometry.py: the Geometry class (atoms in a periodic      *)
(* cell), its index mappers (a2o, o2a), its neighbour search (close_sc,    *)
(* close) and its lattice transforms (sub, remove, tile, repeat, ...).     *)
(*                                                                         *)
(* Conventions.                                                            *)
(*  - numpy arrays and Python lists are functions with domain 0..n-1, so   *)
(*    that indices are the source's indices.                               *)
(*  - Lengths are exact fixed-point numbers in tenths of the length unit   *)
(*    (0.5 is 5, a unit cell edge of 1.0 is 10).  The transforms only add, *)
(*    subtract and multiply by integers, which is exact in these units;    *)
(*    the one square root, in close_sc, is compared through the squares.   *)
(*  - Python's None is the record NoneVal; every value a method returns is *)
(*    a record with a field "kind".                                        *)
(***************************************************************************)
EXTENDS Integers, Sequences, FiniteSets, TLC

VARIABLES
    geom,   \* the Geometry the next method is called on
    src,    \* the object the last method was called on, as it is after the call
    call,   \* the last call: the method's name and its arguments
    ret,    \* what the last call returned, or the exception it raised
    depth,  \* the number of transforms applied so far to reach geom
    root    \* the Geometry as it was constructed

vars == <<geom, src, call, ret, depth, root>>

---------------------------------------------------------------------------
(* Bounds of the model.                                                    *)

\* the largest Structure a chain of transforms builds
MaxAtoms == 8
\* the largest number of copies tile and repeat are asked for
MaxReps == 2
\* the longest chain of transforms
MaxDepth == 2
\* the longest index sequence handed to sub and remove, and to idx of close
MaxIdx == 2
\* the largest number of shell radii handed to close_sc and close
MaxShells == 3

---------------------------------------------------------------------------
(* numpy arrays as functions over 0..n-1.                                  *)

Size(a) == Cardinality(DOMAIN a)

Empty == [i \in {} |-> 0]

\* all arrays of length n over the set S
Arrays(n, S) == [0..(n - 1) -> S]

\* np.append(a, b) of two one-dimensional arrays (axis=0 for rows)
np_append(a, b) ==
    [i \in 0..(Size(a) + Size(b) - 1) |->
        IF i < Size(a) THEN a[i] ELSE b[i - Size(a)]]

\* a[idx] for an index array idx (numpy fancy indexing: a fresh array)
Take(a, idx) == [j \in 0..(Size(idx) - 1) |-> a[idx[j]]]

\* np.where(b)[0] of a boolean array: the ascending indices where b holds
RECURSIVE WhereUpTo(_, _)
WhereUpTo(b, n) ==
    IF n = 0 THEN Empty
    ELSE LET rest == WhereUpTo(b, n - 1)
         IN IF b[n - 1] THEN np_append(rest, [i \in {0} |-> n - 1]) ELSE rest

np_where(b) == WhereUpTo(b, Size(b))

\* the mutant of np_argmax: the last index holding True
np_argmax_mutant(b) ==
    IF \E j \in DOMAIN b : b[j]
    THEN CHOOSE j \in DOMAIN b : b[j] /\ \A k \in DOMAIN b : b[k] => k <= j
    ELSE 0

\* np.argmax of a boolean array: the first index holding True, 0 when none does
np_argmax(b) ==
    IF \E j \in DOMAIN b : b[j]
    THEN CHOOSE j \in DOMAIN b : b[j] /\ \A k \in DOMAIN b : b[k] => j <= k
    ELSE 0

\* np.cumsum
RECURSIVE SumUpTo(_, _)
SumUpTo(a, n) == IF n = 0 THEN 0 ELSE SumUpTo(a, n - 1) + a[n - 1]

np_cumsum(a) == [i \in DOMAIN a |-> SumUpTo(a, i + 1)]

np_sum(a) == SumUpTo(a, Size(a))

\* np.amax of a non-empty array
np_amax(a) == CHOOSE m \in {a[i] : i \in DOMAIN a} : \A i \in DOMAIN a : a[i] <= m

Elems(a) == {a[i] : i \in DOMAIN a}

\* a three-vector, and the arithmetic numpy broadcasts over rows
Vec(x, y, z) == [i \in 0..2 |-> IF i = 0 THEN x ELSE IF i = 1 THEN y ELSE z]

VAdd(u, v) == [i \in 0..2 |-> u[i] + v[i]]

VSub(u, v) == [i \in 0..2 |-> u[i] - v[i]]

VScale(k, v) == [i \in 0..2 |-> k * v[i]]

NoneVal == [kind |-> "None"]

\* an argument or a result that is an array (where None is possible too)
Array(a) == [kind |-> "array", v |-> a]

---------------------------------------------------------------------------
(* The collaborators of Geometry: Atom (sids/atom.py), SuperCell           *)
(* (sids/supercell.py) and array_fill_repeat (sids/_help.py).  Geometry    *)
(* reads an Atom's orbs and dR, and a SuperCell's cell, nsc, n_s, sc_off,  *)
(* offset and copy.                                                        *)

\* Atom: a species tag, its number of orbitals and its interaction range
Atom(tag, orbs, dR) == [tag |-> tag, orbs |-> orbs, dR |-> dR]

AtomH == Atom("H", 1, 6)

AtomC == Atom("C", 2, 11)

AtomFe == Atom("Fe", 3, 15)

\* an Atom built without a range: it carries no cutoff data, its dR is -1
AtomX == Atom("X", 1, -1)

\* SuperCell: the three cell vectors (rows) and the number of replicas per axis
SuperCell(cell, nsc) == [cell |-> cell, nsc |-> nsc]

\* SuperCell.n_s: the number of replicas
n_s(sc) == sc.nsc[0] * sc.nsc[1] * sc.nsc[2]

\* SuperCell.sc_off: the replicas' integer offsets, the home cell first, then
\* the others with the first axis running fastest
sc_off(sc) ==
    LET n == sc.nsc
        all == [t \in 0..(n_s(sc) - 1) |->
                   Vec((t % n[0]) - (n[0] \div 2),
                       ((t \div n[0]) % n[1]) - (n[1] \div 2),
                       (t \div (n[0] * n[1])) - (n[2] \div 2))]
        others == Take(all, np_where([t \in DOMAIN all |-> all[t] # Vec(0, 0, 0)]))
    IN np_append([i \in {0} |-> Vec(0, 0, 0)], others)

\* SuperCell.offset(isc): the Cartesian displacement of replica isc
offset(sc, isc) ==
    VAdd(VScale(isc[0], sc.cell[0]),
         VAdd(VScale(isc[1], sc.cell[1]), VScale(isc[2], sc.cell[2])))

\* SuperCell.copy(): a new SuperCell of the same cell and nsc
sc_copy(sc) == SuperCell(sc.cell, sc.nsc)

\* SuperCell.cut(seps, axis): a new SuperCell whose cell row axis is divided
\* by seps (the rows cut are whole numbers of tenths after the cut)
sc_cut(sc, seps, axis) ==
    SuperCell([i \in 0..2 |-> IF i = axis
                              THEN [c \in 0..2 |-> sc.cell[i][c] \div seps]
                              ELSE sc.cell[i]],
              sc.nsc)

\* SuperCell.append(other, axis): a new SuperCell whose cell row axis is the
\* sum of the two rows axis
sc_append(sc, other, axis) ==
    SuperCell([i \in 0..2 |-> IF i = axis THEN VAdd(sc.cell[i], other.cell[i])
                              ELSE sc.cell[i]],
              sc.nsc)

\* array_fill_repeat(array, size): array tiled to length size
\* (size is a multiple of len(array))
array_fill_repeat(array, size) ==
    [i \in 0..(size - 1) |-> array[i % Size(array)]]

---------------------------------------------------------------------------
(* Geometry.__init__ with an explicit supercell.                           *)

Geometry(xyz, atoms, sc) ==
    LET na == Size(xyz)
        A == atoms
        selfatoms == array_fill_repeat(A, na)
        dR == np_amax([i \in DOMAIN A |-> A[i].dR])
        orbs == [i \in DOMAIN selfatoms |-> selfatoms[i].orbs]
        no == np_sum(orbs)
        lasto == np_cumsum(np_append([i \in {0} |-> 0], orbs))
    IN [xyz |-> xyz, na |-> na, atoms |-> selfatoms, dR |-> dR,
        no |-> no, lasto |-> lasto, sc |-> sc]

\* SuperCellChild.cell
cell(self) == self.sc.cell

---------------------------------------------------------------------------
(* Index mapper.                                                           *)

\* Geometry.a2o(ia), all=False: the first orbital of atom ia
a2o(self, ia) == self.lasto[ia % self.na] + (ia \div self.na) * self.no

\* the type np.int32, handed to np.arange where its step goes
Int32 == [kind |-> "type", name |-> "int32"]

\* np.arange(start, stop, step): the third positional argument is the step;
\* a step that is a type and no number raises TypeError
np_arange_step(start, stop, step) ==
    IF step.kind = "type"
    THEN [kind |-> "raised", exc |-> "TypeError"]
    ELSE [kind |-> "array",
          v |-> [k \in 0..(((stop - start) + step.v - 1) \div step.v) - 1 |->
                    start + k * step.v]]

\* the loop of a2o(ia, all=True) from iteration i on, n orbitals written to o:
\* o[n:n+oe[i]-ob[i]] = np.arange(ob[i], oe[i], np.int32)
RECURSIVE a2o_ranges(_, _, _, _, _)
a2o_ranges(ob, oe, o, n, i) ==
    IF i >= Size(ob)
    THEN [kind |-> "array", v |-> o]
    ELSE IF np_arange_step(ob[i], oe[i], Int32).kind = "raised"
    THEN np_arange_step(ob[i], oe[i], Int32)
    ELSE a2o_ranges(ob, oe,
                    [k \in DOMAIN o |->
                        IF n <= k /\ k < n + oe[i] - ob[i]
                        THEN np_arange_step(ob[i], oe[i], Int32).v[k - n]
                        ELSE o[k]],
                    n + oe[i] - ob[i], i + 1)

\* Geometry.a2o(ia, all=True).  ia is an int, a Python list or an ndarray:
\* a list has no %, so self.a2o(ia) raises; for an int ob is a numpy scalar,
\* which has no len(); for an ndarray the loop runs
a2o_all(self, ia) ==
    IF ia.kind = "list"
    THEN [kind |-> "raised", exc |-> "TypeError"]
    ELSE IF ia.kind = "int"
    THEN [kind |-> "raised", exc |-> "TypeError"]
    ELSE a2o_ranges([k \in DOMAIN ia.v |-> a2o(self, ia.v[k])],
                    [k \in DOMAIN ia.v |-> a2o(self, ia.v[k] + 1)],
                    [k \in 0..(np_sum([j \in DOMAIN ia.v |->
                                          a2o(self, ia.v[j] + 1)
                                          - a2o(self, ia.v[j])]) - 1) |-> 0],
                    0, 0)

\* the mutant of o2a: the comparison of the reversed search made strict
o2a_mutant(self, io) ==
    LET rlasto == [j \in 0..self.na |-> self.lasto[self.na - j]]
        iio == [k \in {0} |-> io % self.no]
        a == [k \in DOMAIN iio |->
                 self.na - np_argmax([j \in DOMAIN rlasto |-> rlasto[j] < iio[k]])]
    IN [k \in DOMAIN a |-> a[k] + (io \div self.no) * self.na]

\* Geometry.o2a(io) of one orbital index: a one-element array
o2a(self, io) ==
    LET rlasto == [j \in 0..self.na |-> self.lasto[self.na - j]]
        iio == [k \in {0} |-> io % self.no]
        a == [k \in DOMAIN iio |->
                 self.na - np_argmax([j \in DOMAIN rlasto |-> rlasto[j] <= iio[k]])]
    IN [k \in DOMAIN a |-> a[k] + (io \div self.no) * self.na]

---------------------------------------------------------------------------
(* Neighbour search.  The query xyz_ia is [kind |-> "int", ia |-> ia] for  *)
(* an atom index and [kind |-> "xyz", p |-> point] for a coordinate; dR is *)
(* NoneVal or Array(np.array([dR]).flatten()), the radii given (a single   *)
(* radius is the one-element array); idx is NoneVal or Array(indices).     *)
(* ret_coord and ret_dist are False.                                       *)

\* Geometry.coords(isc, idx)
coords(self, isc, idx) ==
    LET off == offset(self.sc, isc)
    IN IF idx.kind = "None"
       THEN [i \in DOMAIN self.xyz |-> VAdd(self.xyz[i], off)]
       ELSE [j \in DOMAIN idx.v |-> VAdd(self.xyz[idx.v[j]], off)]

\* dxa[:,0]**2 + dxa[:,1]**2 + dxa[:,2]**2, the square of xaR
norm2(v) == v[0] * v[0] + v[1] * v[1] + v[2] * v[2]

\* the mutant of within: the square root of line 864 forgotten
within_mutant(d2, r) == r >= 0 /\ d2 <= r

\* the mutant of within: the comparison made strict (xaR < r)
within_strict_mutant(d2, r) == r > 0 /\ d2 < r * r

\* xaR <= r, for the distance xaR whose square is d2
within(d2, r) == r >= 0 /\ d2 <= r * r

\* the mutant of inshell: the lower edge of the shell included
inshell_mutant(d2, lo, hi) == within(d2, hi) /\ (within(d2, lo) => d2 = lo * lo)

\* np.logical_and(lo < xaR, xaR <= hi)
inshell(d2, lo, hi) == ~within(d2, lo) /\ within(d2, hi)

\* np.any(np.diff(ddR) < 0.)
descending(ddR) == \E i \in 1..(Size(ddR) - 1) : ddR[i] - ddR[i - 1] < 0

\* Geometry.close_sc(xyz_ia, isc, dR, idx)
close_sc(self, xyz_ia, isc, dR, idx) ==
    LET ddR == IF dR.kind = "None" THEN [i \in {0} |-> self.dR] ELSE dR.v
        off == IF xyz_ia.kind = "int" THEN self.xyz[xyz_ia.ia] ELSE xyz_ia.p
        crd == coords(self, isc, idx)
        xaR == [i \in DOMAIN crd |-> norm2(VSub(crd[i], off))]
        ix == np_where([i \in DOMAIN xaR |-> within(xaR[i], ddR[Size(ddR) - 1])])
        xaRr == Take(xaR, ix)
        shell(i) ==
            LET tidx == IF i = 0
                        THEN np_where([j \in DOMAIN xaRr |-> within(xaRr[j], ddR[0])])
                        ELSE np_where([j \in DOMAIN xaRr |->
                                           inshell(xaRr[j], ddR[i - 1], ddR[i])])
            IN IF idx.kind = "None" THEN Take(ix, tidx) ELSE Take(idx.v, Take(ix, tidx))
    IN IF Size(ddR) = 1
       THEN [kind |-> "array", v |-> IF idx.kind = "None" THEN ix ELSE Take(idx.v, ix)]
       ELSE IF descending(ddR)
       THEN [kind |-> "raised", exc |-> "ValueError"]
       ELSE [kind |-> "list", v |-> [i \in DOMAIN ddR |-> shell(i)]]

\* x + na for an index array x
Shift(x, na) == [i \in DOMAIN x |-> x[i] + na]

\* the body of the loop of close over the replicas: ret[0] after replica s,
\* from ret[0] before it
close_step(self, acc, s, xyz_ia, dR, idx) ==
    LET na == self.na * s
        sret == close_sc(self, xyz_ia, sc_off(self.sc)[s], dR, idx)
    IN IF acc.kind = "raised" THEN acc
       ELSE IF sret.kind = "raised" THEN sret
       ELSE IF sret.kind = "list"
       THEN IF acc.kind = "None"
            THEN [kind |-> "list", v |-> [i \in DOMAIN sret.v |-> Shift(sret.v[i], na)]]
            ELSE [kind |-> "list",
                  v |-> [i \in DOMAIN sret.v |->
                            np_append(acc.v[i], Shift(sret.v[i], na))]]
       ELSE IF Size(sret.v) > 0
       THEN IF acc.kind = "None"
            THEN [kind |-> "array", v |-> Shift(sret.v, na)]
            ELSE [kind |-> "array", v |-> np_append(acc.v, Shift(sret.v, na))]
       ELSE acc

RECURSIVE close_loop(_, _, _, _, _)
close_loop(self, n, xyz_ia, dR, idx) ==
    IF n = 0 THEN NoneVal
    ELSE close_step(self, close_loop(self, n - 1, xyz_ia, dR, idx), n - 1,
                    xyz_ia, dR, idx)

\* Geometry.close(xyz_ia, dR, idx): ret[0] after the loop over range(n_s)
close(self, xyz_ia, dR, idx) == close_loop(self, n_s(self.sc), xyz_ia, dR, idx)

---------------------------------------------------------------------------
(* Lattice transforms.  Each returns [new |-> the Geometry built,          *)
(* self |-> the object the method was called on, as it is after the call,  *)
(* view |-> where the coordinate array of new is stored].  Geometry keeps  *)
(* the float array it is handed (np.asarray, line 82, does not copy one):  *)
(* view is NoneVal when that array is a fresh one, and Array(rows) when it *)
(* is a view of self.xyz, row j of new being row rows[j] of self.xyz.      *)

\* np.arange(n)
np_arange(n) == [i \in 0..(n - 1) |-> i]

\* the cell with row axis multiplied by reps (sc.cell[axis,:] *= reps)
ScaleRow(c, axis, reps) == [i \in 0..2 |-> IF i = axis THEN VScale(reps, c[i]) ELSE c[i]]

\* the mutant of tile: the displacement repeated per copy replaced by the
\* displacement tiled per atom (np.tile(dx, (na, 1)))
tile_mutant(self, reps, axis) ==
    LET sc == SuperCell(ScaleRow(sc_copy(self.sc).cell, axis, reps), self.sc.nsc)
        n == self.na * reps
        dx == [k \in 0..(reps - 1) |-> VScale(k, cell(self)[axis])]
        xyz == [j \in 0..(n - 1) |-> VAdd(self.xyz[j % self.na], dx[j % reps])]
    IN [new |-> Geometry(xyz, self.atoms, sc), self |-> self, view |-> NoneVal]

\* Geometry.tile(reps, axis)
tile(self, reps, axis) ==
    LET sc == SuperCell(ScaleRow(sc_copy(self.sc).cell, axis, reps), self.sc.nsc)
        n == self.na * reps
        \* xyz = np.tile(self.xyz, (reps, 1))
        xyz0 == [j \in 0..(n - 1) |-> self.xyz[j % self.na]]
        dx == [k \in 0..(reps - 1) |-> VScale(k, cell(self)[axis])]
        \* xyz[0:na*reps,:] += np.repeat(dx, self.na, axis=0)
        xyz == [j \in 0..(n - 1) |-> VAdd(xyz0[j], dx[j \div self.na])]
    IN [new |-> Geometry(xyz, self.atoms, sc), self |-> self, view |-> NoneVal]

\* the mutant of repeat: the copies written block by block, as tile does
repeat_mutant(self, reps, axis) ==
    LET sc == SuperCell(ScaleRow(sc_copy(self.sc).cell, axis, reps), self.sc.nsc)
        na == self.na * reps
        dx == [k \in 0..(reps - 1) |-> VScale(k, cell(self)[axis])]
        xyz == [j \in 0..(na - 1) |-> VAdd(self.xyz[j % self.na], dx[j \div self.na])]
        atoms == [j \in 0..(na - 1) |-> self.atoms[j % self.na]]
    IN [new |-> Geometry(xyz, atoms, sc), self |-> self, view |-> NoneVal]

\* Geometry.repeat(reps, axis): the loop over ia writes rows ja..ja+reps-1,
\* ja = ia*reps, so row j holds atom j // reps displaced by dx[j % reps]
repeat(self, reps, axis) ==
    LET sc == SuperCell(ScaleRow(sc_copy(self.sc).cell, axis, reps), self.sc.nsc)
        na == self.na * reps
        dx == [k \in 0..(reps - 1) |-> VScale(k, cell(self)[axis])]
        xyz == [j \in 0..(na - 1) |-> VAdd(self.xyz[j \div reps], dx[j % reps])]
        atoms == [j \in 0..(na - 1) |-> self.atoms[j \div reps]]
    IN [new |-> Geometry(xyz, atoms, sc), self |-> self, view |-> NoneVal]

\* the mutant of sub: the atoms taken in ascending order of index
sub_mutant(self, atoms, cell_) ==
    LET sorted == Take(np_arange(self.na),
                       np_where([i \in 0..(self.na - 1) |-> i \in Elems(atoms)]))
        sc == IF cell_.kind = "None" THEN sc_copy(self.sc) ELSE cell_.v
    IN [new |-> Geometry(Take(self.xyz, sorted), Take(self.atoms, sorted), sc),
        self |-> self, view |-> NoneVal]

\* the mutant of sub: dR and no copied from the source
sub_stale_mutant(self, atoms, cell_) ==
    LET atms == atoms
        sc == IF cell_.kind = "None" THEN sc_copy(self.sc) ELSE cell_.v
        new == Geometry(Take(self.xyz, atoms), Take(self.atoms, atms), sc)
    IN [new |-> [new EXCEPT !.dR = self.dR, !.no = self.no],
        self |-> self, view |-> NoneVal]

\* Geometry.sub(atoms, cell) for a non-empty index array atoms
sub(self, atoms, cell_) ==
    LET atms == atoms
        sc == IF cell_.kind = "None" THEN sc_copy(self.sc) ELSE cell_.v
    \* self.xyz[atoms,:] with an index array is a fresh array
    IN [new |-> Geometry(Take(self.xyz, atoms), Take(self.atoms, atms), sc),
        self |-> self, view |-> NoneVal]

\* np.setdiff1d(ar1, ar2, assume_unique=True): the members of ar1 that are not
\* in ar2, in the order of ar1
np_setdiff1d(ar1, ar2) ==
    Take(ar1, np_where([i \in DOMAIN ar1 |-> ar1[i] \notin Elems(ar2)]))

\* Geometry.remove(atoms)
remove(self, atoms) == sub(self, np_setdiff1d(np_arange(self.na), atoms), NoneVal)

\* the mutant of indivisible: only a Structure of fewer atoms than parts is
\* refused
indivisible_mutant(na, seps) == na < seps

\* self.na % seps != 0
indivisible(na, seps) == na % seps # 0

\* the mutant of np_allclose: every comparison succeeds
np_allclose_mutant(a, b) == TRUE

\* np.allclose(a, b) of two coordinate arrays of one shape: coordinates are
\* whole tenths, far coarser than the tolerance, so close means equal
np_allclose(a, b) == a = b

\* the mutant of cut: the atoms of the segment translated into the reduced cell
cut_mutant(self, seps, axis, seg) ==
    IF indivisible(self.na, seps)
    THEN [raised |-> TRUE, self |-> self, view |-> NoneVal]
    ELSE LET lseg == seg % seps
             sc == sc_cut(self.sc, seps, axis)
             n == self.na \div seps
             off == n * lseg
             new == sub(self, [i \in 0..(n - 1) |-> off + i],
                        [kind |-> "SuperCell", v |-> sc]).new
             moved == [new EXCEPT !.xyz =
                          [i \in DOMAIN new.xyz |->
                              VSub(new.xyz[i], VScale(lseg, sc.cell[axis]))]]
         IN [raised |-> FALSE, new |-> moved, self |-> self, view |-> NoneVal,
             warned |-> ~np_allclose(tile(moved, seps, axis).new.xyz, self.xyz)]

\* Geometry.cut(seps, axis, seg): raised when the ValueError of line 404 is,
\* warned when the UserWarning of line 415 is issued
cut(self, seps, axis, seg) ==
    IF indivisible(self.na, seps)
    THEN [raised |-> TRUE, self |-> self, view |-> NoneVal]
    ELSE LET lseg == seg % seps
             sc == sc_cut(self.sc, seps, axis)
             n == self.na \div seps
             off == n * lseg
             \* np.arange(off, off + n)
             new == sub(self, [i \in 0..(n - 1) |-> off + i],
                        [kind |-> "SuperCell", v |-> sc]).new
         IN [raised |-> FALSE, new |-> new, self |-> self, view |-> NoneVal,
             warned |-> ~np_allclose(tile(new, seps, axis).new.xyz, self.xyz)]

\* Geometry.copy(): np.copy(self.xyz) is a fresh array
copy(self) ==
    [new |-> Geometry(self.xyz, self.atoms, sc_copy(self.sc)), self |-> self,
     view |-> NoneVal]

\* Geometry.translate(v, atoms), cell=False: the copy g, its rows (all, or
\* those of atoms) displaced in place
translate(self, v, atoms) ==
    LET g == copy(self).new
        xyz == [i \in DOMAIN g.xyz |->
                   IF atoms.kind = "None" \/ i \in Elems(atoms.v)
                   THEN VAdd(g.xyz[i], v) ELSE g.xyz[i]]
    IN [new |-> [g EXCEPT !.xyz = xyz], self |-> self, view |-> NoneVal]

\* the mutant of append: the atoms of other not displaced
append_mutant(self, other, axis) ==
    LET xyz == np_append(self.xyz, other.xyz)
        atoms == np_append(self.atoms, other.atoms)
        sc == sc_append(self.sc, other.sc, axis)
    IN [new |-> Geometry(xyz, atoms, sc), self |-> self, other |-> other,
        view |-> NoneVal]

\* Geometry.append(other, axis)
append(self, other, axis) ==
    LET xyz == np_append(self.xyz,
                         [j \in DOMAIN other.xyz |->
                             VAdd(cell(self)[axis], other.xyz[j])])
        atoms == np_append(self.atoms, other.atoms)
        sc == sc_append(self.sc, other.sc, axis)
    IN [new |-> Geometry(xyz, atoms, sc), self |-> self, other |-> other,
        view |-> NoneVal]

\* a[atoms] = b[atoms[::-1]]: entry atoms[k] takes b[atoms[n-1-k]], the last k
\* winning where an index is given twice
AssignReversed(a, b, atoms) ==
    LET n == Size(atoms)
        last(i) == CHOOSE k \in DOMAIN atoms :
                       atoms[k] = i /\ \A l \in DOMAIN atoms : atoms[l] = i => l <= k
    IN [i \in DOMAIN a |-> IF i \in Elems(atoms) THEN b[atoms[n - 1 - last(i)]]
                           ELSE a[i]]

\* the mutant of reverse: the species of a subset left where they were
reverse_mutant(self, atoms) ==
    IF atoms.kind = "None"
    THEN [new |-> Geometry([j \in DOMAIN self.xyz |-> self.xyz[self.na - 1 - j]],
                           [j \in DOMAIN self.atoms |-> self.atoms[self.na - 1 - j]],
                           sc_copy(self.sc)),
          self |-> self,
          view |-> Array([j \in DOMAIN self.xyz |-> self.na - 1 - j])]
    ELSE [new |-> Geometry(AssignReversed(self.xyz, self.xyz, atoms.v),
                           self.atoms, sc_copy(self.sc)),
          self |-> self, view |-> NoneVal]

\* Geometry.reverse(atoms): without a subset xyz is self.xyz[::-1,:], a view of
\* self.xyz with the rows in reverse; with a subset it is a copy
reverse(self, atoms) ==
    IF atoms.kind = "None"
    THEN [new |-> Geometry([j \in DOMAIN self.xyz |-> self.xyz[self.na - 1 - j]],
                           [j \in DOMAIN self.atoms |-> self.atoms[self.na - 1 - j]],
                           sc_copy(self.sc)),
          self |-> self,
          view |-> Array([j \in DOMAIN self.xyz |-> self.na - 1 - j])]
    ELSE [new |-> Geometry(AssignReversed(self.xyz, self.xyz, atoms.v),
                           AssignReversed(self.atoms, self.atoms, atoms.v),
                           sc_copy(self.sc)),
          self |-> self, view |-> NoneVal]

\* str.lower() of one letter of a plane
lower(c) ==
    IF c = "X" THEN "x" ELSE IF c = "Y" THEN "y" ELSE IF c = "Z" THEN "z" ELSE c

\* the order sorted() puts the lower-case letters in
LetterRank(c) == IF c = "x" THEN 0 ELSE IF c = "y" THEN 1 ELSE 2

\* ''.join(letters)
RECURSIVE join(_)
join(letters) ==
    IF Len(letters) = 0 THEN "" ELSE Head(letters) \o join(Tail(letters))

\* lplane = ''.join(sorted(plane.lower())), plane being the sequence of its
\* letters
sorted_lower(plane) ==
    join(SortSeq([k \in DOMAIN plane |-> lower(plane[k])],
                 LAMBDA a, b : LetterRank(a) < LetterRank(b)))

\* Geometry.mirror(plane, atoms), lplane being the sorted lower-case plane:
\* the copy g with one column negated; atoms is not read
mirror(self, lplane, atoms) ==
    LET g == copy(self).new
        col == IF lplane = "xy" THEN 2
               ELSE IF lplane = "yz" THEN 0
               ELSE IF lplane = "xz" THEN 1 ELSE -1
        xyz == [i \in DOMAIN g.xyz |->
                   [c \in 0..2 |-> IF c = col THEN -g.xyz[i][c] ELSE g.xyz[i][c]]]
    IN [new |-> Geometry(xyz, g.atoms, sc_copy(self.sc)), self |-> self,
        view |-> NoneVal]

\* np.insert(arr, obj, values, axis=0): values spliced in before row obj
np_insert(arr, obj, values) ==
    [j \in 0..(Size(arr) + Size(values) - 1) |->
        IF j < obj THEN arr[j]
        ELSE IF j < obj + Size(values) THEN values[j - obj]
        ELSE arr[j - Size(values)]]

\* Geometry.insert(atom, other)
insert(self, atom, other) ==
    LET xyz == np_insert(self.xyz, atom, other.xyz)
        atoms == np_insert(self.atoms, atom, other.atoms)
    IN [new |-> Geometry(xyz, atoms, sc_copy(self.sc)), self |-> self,
        other |-> other, view |-> NoneVal]

---------------------------------------------------------------------------
(* Geometry.__init__ without a supercell: __init_sc estimates the cell.    *)

\* set_supercell(None): the default SuperCell, the unit cube with one replica
DefaultSuperCell ==
    SuperCell([i \in 0..2 |-> [c \in 0..2 |-> IF i = c THEN 10 ELSE 0]],
              [i \in 0..2 |-> 1])

\* set_supercell(sc_cart): the SuperCell of three lengths along the Cartesian
\* axes, with one replica
SuperCellOfLengths(sc_cart) ==
    SuperCell([i \in 0..2 |-> [c \in 0..2 |-> IF i = c THEN sc_cart[i] ELSE 0]],
              [i \in 0..2 |-> 1])

np_abs(x) == IF x < 0 THEN -x ELSE x

\* np.amin
np_amin(a) == CHOOSE m \in Elems(a) : \A x \in Elems(a) : m <= x

\* np.amax(self.xyz[:,i]) - np.amin(self.xyz[:,i])
max_dist(self, i) ==
    LET col == [k \in DOMAIN self.xyz |-> self.xyz[k][i]]
    IN np_amax(col) - np_amin(col)

\* the end of __init_sc once close has returned closest: without a neighbour
\* the SuperCell is left as it is, else it is set from the lengths
init_sc_lengths(self, closest) ==
    LET length(i) ==
            LET \* np.abs(np.dot(dist, cart))
                dd == [k \in DOMAIN closest |->
                          np_abs(self.xyz[closest[k]][i] - self.xyz[0][i])]
                tmp_idx == np_where([k \in DOMAIN dd |-> dd[k] >= 4])
            IN IF Size(tmp_idx) > 0
               THEN max_dist(self, i) + np_amin(Take(dd, tmp_idx))
               ELSE IF 100 >= max_dist(self, i) THEN 100 ELSE max_dist(self, i)
    IN IF Size(closest) < 1
       THEN self
       ELSE [self EXCEPT !.sc = SuperCellOfLengths([i \in 0..2 |-> length(i)])]

\* Geometry.__init_sc(None), self holding the default SuperCell already:
\* closest = self.close(0, dR=(0.,0.4,5.))[2]
init_sc(self) ==
    init_sc_lengths(self,
                    close(self, [kind |-> "int", ia |-> 0],
                          Array([i \in 0..2 |-> IF i = 0 THEN 0
                                                ELSE IF i = 1 THEN 4 ELSE 50]),
                          NoneVal).v[2])

\* Geometry(xyz, atoms), sc=None
GeometryNoCell(xyz, atoms) == init_sc(Geometry(xyz, atoms, DefaultSuperCell))

---------------------------------------------------------------------------
(* The block iterator.  The generator iter_block returns is the record of  *)
(* the locals of its frame: not_passed, not_passed_N, idx (-1 before the   *)
(* first pass), the batches yielded so far, and state: "suspended" before  *)
(* the first next() and after a yield, "done" after the loop has ended,    *)
(* "raised" after an exception.                                            *)

\* the mutant of np_unique: the duplicates kept
np_unique_mutant(a) == a

\* np.unique(a) of an array of non-negative integers: its members, ascending
np_unique(a) ==
    LET top == IF Size(a) = 0 THEN 0 ELSE 1 + CHOOSE m \in Elems(a) :
                                                  \A x \in Elems(a) : x <= m
    IN Take(np_arange(top), np_where([i \in 0..(top - 1) |-> i \in Elems(a)]))

\* Geometry.sc2uc(atoms, uniq=True)
sc2uc(self, atoms) == np_unique([i \in DOMAIN atoms |-> atoms[i] % self.na])

\* the Structure with its lengths in hundredths, for radii that are not whole
\* tenths
Hundredths(self) ==
    [self EXCEPT !.xyz = [i \in DOMAIN self.xyz |-> VScale(10, self.xyz[i])],
                 !.sc.cell = [i \in 0..2 |-> VScale(10, self.sc.cell[i])]]

\* dr = (dR * (iR - 1), dR * (iR + .1)) in hundredths, dR being self.dR when
\* none is passed
block_radii(self, iR, dR) ==
    LET R == IF dR.kind = "None" THEN self.dR ELSE dR.v
    IN [i \in 0..1 |-> IF i = 0 THEN R * (iR - 1) * 10 ELSE R * (10 * iR + 1)]

\* the generator before its first next()
iter_block(self) ==
    [kind |-> "generator", state |-> "suspended",
     not_passed |-> [i \in 0..(self.na - 1) |-> TRUE],
     not_passed_N |-> self.na,
     idx |-> -1,
     yielded |-> Empty]

\* the end of one pass: the batch is yielded, and its atoms are passed; a
\* batch without atoms raises
iter_block_yield(gen, b0, a1) ==
    IF Size(b0) = 0
    THEN [gen EXCEPT !.state = "raised"]
    ELSE [gen EXCEPT
             !.not_passed = [i \in DOMAIN gen.not_passed |->
                                gen.not_passed[i] /\ i \notin Elems(b0)],
             !.not_passed_N = gen.not_passed_N - Size(b0),
             !.yielded = np_append(gen.yielded,
                                   [k \in {0} |-> [ias |-> b0, idxs |-> a1]])]

\* the middle of one pass: a0 is all_idx[0] in the unit cell and a1 all_idx[1]
\* as close returned it; all_idx[1] takes the atoms of all_idx[0] in, and
\* all_idx[0] keeps those not passed
iter_block_select(self, gen, a0, a1) ==
    iter_block_yield(gen,
                     Take(a0, np_where([j \in DOMAIN a0 |-> gen.not_passed[a0[j]]])),
                     sc2uc(self, np_append(a1, a0)))

\* one pass of the loop once close has returned all_idx
iter_block_shells(self, gen, all_idx) ==
    IF all_idx.kind = "raised"
    THEN [gen EXCEPT !.state = "raised"]
    ELSE iter_block_select(self, gen, sc2uc(self, all_idx.v[0]), all_idx.v[1])

\* one pass of the loop of iter_block for the element idx the shuffle put
\* first: the generator after it has yielded or raised
iter_block_pass(self, gen, iR, dR, idx) ==
    iter_block_shells(self, [gen EXCEPT !.idx = idx],
                      close(Hundredths(self), [kind |-> "int", ia |-> idx],
                            Array(block_radii(self, iR, dR)), NoneVal))

\* the end of iter_block, once the loop has ended
iter_block_end(gen) ==
    IF \E i \in DOMAIN gen.not_passed : gen.not_passed[i]
    THEN [gen EXCEPT !.state = "raised"]
    ELSE [gen EXCEPT !.state = "done"]

---------------------------------------------------------------------------
(* The Structures the methods are called on.                               *)

Arr1(a) == [i \in 0..0 |-> a]

Arr2(a, b) == [i \in 0..1 |-> IF i = 0 THEN a ELSE b]

Arr3(a, b, c) == [i \in 0..2 |-> IF i = 0 THEN a ELSE IF i = 1 THEN b ELSE c]

\* the unit cell [[1,0,0],[0,1,0],[0,0,1]]
Cubic == Arr3(Vec(10, 0, 0), Vec(0, 10, 0), Vec(0, 0, 10))

\* a cell whose second vector is not along a Cartesian axis
Skew == Arr3(Vec(10, 0, 0), Vec(5, 10, 0), Vec(0, 0, 20))

NscSet == {Vec(1, 1, 1), Vec(3, 1, 1), Vec(3, 3, 1)}

\* the example of the docstrings of tile and repeat: atoms at (0,0,0) and
\* (0.5,0,0) in the unit cube, of the default species
TwoAtom(nsc) ==
    Geometry(Arr2(Vec(0, 0, 0), Vec(5, 0, 0)), Arr1(AtomH), SuperCell(Cubic, nsc))

\* a single atom
OneAtom(nsc) == Geometry(Arr1(Vec(1, 2, 3)), Arr1(AtomFe), SuperCell(Skew, nsc))

\* a cell short along its first vector, so that replicas are within reach
Slab == Arr3(Vec(5, 0, 0), Vec(0, 10, 0), Vec(0, 0, 10))

\* two atoms of different species, the one with more orbitals first
TwoSpecies(nsc) ==
    Geometry(Arr2(Vec(0, 0, 0), Vec(0, 0, 3)), Arr2(AtomC, AtomH), SuperCell(Slab, nsc))

\* three atoms whose orbital counts all differ; atom 2 is at distance 0.5 of
\* atom 0
ThreeAtom(nsc) ==
    Geometry(Arr3(Vec(0, 0, 0), Vec(5, 0, 0), Vec(3, 4, 0)),
             Arr3(AtomH, AtomC, AtomFe), SuperCell(Skew, nsc))

\* two atoms of a species that carries no cutoff data
NoCutoff(nsc) ==
    Geometry(Arr2(Vec(0, 0, 0), Vec(0, 5, 0)), Arr1(AtomX), SuperCell(Cubic, nsc))

InitGeoms ==
    UNION {{TwoAtom(nsc), OneAtom(nsc), TwoSpecies(nsc), ThreeAtom(nsc),
            NoCutoff(nsc)} : nsc \in NscSet}

NoCall == [op |-> "none"]

Init ==
    /\ geom \in InitGeoms
    /\ src = geom
    /\ call = NoCall
    /\ ret = NoneVal
    /\ depth = 0
    /\ root = geom

---------------------------------------------------------------------------
(* The arguments the methods are called with.                              *)

\* index arrays of length 1..MaxIdx over the atoms 0..na-1 (duplicates and
\* any order included)
IdxArrays(na) == UNION {Arrays(n, 0..(na - 1)) : n \in 1..MaxIdx}

IsUnique(a) == \A i, j \in DOMAIN a : a[i] = a[j] => i = j

\* shell radii: 0, 0.4, 0.5, 0.6
Radii == {0, 4, 5, 6}

Ascending(a) == \A i \in 1..(Size(a) - 1) : a[i - 1] < a[i]

\* dR: None, one radius, any two radii, or 3..MaxShells ascending radii
RadiiArgs ==
    {NoneVal} \cup {Array(a) : a \in Arrays(1, Radii) \cup Arrays(2, Radii)}
    \cup {Array(a) : a \in {b \in UNION {Arrays(n, Radii) : n \in 3..MaxShells} :
                               Ascending(b)}}

\* the query: an atom of the unit cell, a point near the atoms, a far point
Queries(self) ==
    {[kind |-> "int", ia |-> ia] : ia \in 0..(self.na - 1)}
    \cup {[kind |-> "xyz", p |-> p] : p \in {Vec(5, 5, 0), Vec(40, 40, 40)}}

\* idx: None or an index array
IdxArgs(self) == {NoneVal} \cup {Array(a) : a \in IdxArrays(self.na)}

\* ia of a2o(ia, all=True): one supercell-qualified atom index, or a list or
\* an array of up to MaxIdx of them (the empty array included), drawn from
\* the first and the last atom of the first and of the last replica
AllIndices(self) ==
    {0, self.na - 1, self.na * (n_s(self.sc) - 1), self.na * n_s(self.sc) - 1}

AllArgs(self) ==
    {[kind |-> "int", ia |-> ia] : ia \in AllIndices(self)}
    \cup {[kind |-> "list", v |-> a] :
             a \in UNION {Arrays(n, AllIndices(self)) : n \in 1..MaxIdx}}
    \cup {Array(a) : a \in UNION {Arrays(n, AllIndices(self)) : n \in 0..MaxIdx}}

\* the number of parts of cut, and the segments asked for (segments below 0
\* and beyond the number of parts included)
PartsArgs == 1..MaxReps

SegArgs == (-1)..MaxReps

\* cutting the cell row into seps leaves whole tenths
WholeCut(self, seps, axis) == \A c \in 0..2 : self.sc.cell[axis][c] % seps = 0

\* the Structures handed to append and insert as other
Others == {OneAtom(Vec(1, 1, 1)), TwoSpecies(Vec(3, 1, 1))}

\* the displacements handed to translate
Displacements == {Vec(1, -2, 0)}

\* the planes handed to mirror, each the sequence of its letters, in either
\* order and case; "xx" names no plane
Planes ==
    {<<"x", "y">>, <<"y", "x">>, <<"y", "z">>, <<"Z", "Y">>, <<"x", "z">>,
     <<"z", "X">>, <<"x", "x">>}

\* the methods that return a new Geometry
Transforms ==
    {"sub", "remove", "tile", "repeat", "cut", "append", "insert", "reverse",
     "translate", "mirror", "copy"}

\* the coordinates bond_correct computes for the atom it moves
Corrected == {Vec(7, 7, 7)}

\* iR of iter_block
RangeArgs == 0..2

\* dR of iter_block: None, 0 or 1.0
BlockRadiusArgs == {NoneVal, [kind |-> "float", v |-> 0], [kind |-> "float", v |-> 10]}

\* the coordinates a Geometry is built from without a cell: one atom; a bond
\* of 1.4 along x; two atoms 20 apart; two atoms 0.3 apart; a triangle in the
\* xy plane; a bond with a projection below 0.4 on x; a bond and an atom far
\* along z
BootCoords ==
    {Arr1(Vec(1, 2, 3)),
     Arr2(Vec(0, 0, 0), Vec(14, 0, 0)),
     Arr2(Vec(0, 0, 0), Vec(200, 0, 0)),
     Arr2(Vec(0, 0, 0), Vec(3, 0, 0)),
     Arr3(Vec(0, 0, 0), Vec(14, 0, 0), Vec(7, 12, 0)),
     Arr2(Vec(0, 0, 0), Vec(-3, 10, 0)),
     Arr3(Vec(0, 0, 0), Vec(0, 14, 0), Vec(0, 0, 120))}

\* the cell passed to sub: None or a SuperCell
CellArgs == {NoneVal, [kind |-> "SuperCell", v |-> SuperCell(Skew, Vec(1, 1, 3))]}

---------------------------------------------------------------------------
(* One action per method.  In Spec a method is called on geom, its result  *)
(* is recorded in ret and Return makes geom ready for the next call.       *)

A2O ==
    /\ call.op = "none"
    /\ \E ia \in 0..(geom.na * n_s(geom.sc) - 1) :
          /\ call' = [op |-> "a2o", ia |-> ia]
          /\ ret' = [kind |-> "int", v |-> a2o(geom, ia)]
    /\ UNCHANGED <<geom, src, depth, root>>

\* a2o(ia, all=True) is called with one index, a list or an array of indices
A2OAll ==
    /\ call.op = "none"
    /\ \E ia \in AllArgs(geom) :
          /\ call' = [op |-> "a2o_all", ia |-> ia]
          /\ ret' = a2o_all(geom, ia)
    /\ UNCHANGED <<geom, src, depth, root>>

O2A ==
    /\ call.op = "none"
    /\ \E io \in 0..(geom.no * n_s(geom.sc) - 1) :
          /\ call' = [op |-> "o2a", io |-> io]
          /\ ret' = Array(o2a(geom, io))
    /\ UNCHANGED <<geom, src, depth, root>>

CloseSc ==
    /\ call.op = "none"
    /\ \E xyz_ia \in Queries(geom), isc \in Elems(sc_off(geom.sc)),
          dR \in RadiiArgs, idx \in IdxArgs(geom) :
          /\ call' = [op |-> "close_sc", xyz_ia |-> xyz_ia, isc |-> isc,
                      dR |-> dR, idx |-> idx]
          /\ ret' = close_sc(geom, xyz_ia, isc, dR, idx)
    /\ UNCHANGED <<geom, src, depth, root>>

Close ==
    /\ call.op = "none"
    /\ \E xyz_ia \in Queries(geom), dR \in RadiiArgs, idx \in IdxArgs(geom) :
          /\ call' = [op |-> "close", xyz_ia |-> xyz_ia, dR |-> dR, idx |-> idx]
          /\ ret' = close(geom, xyz_ia, dR, idx)
    /\ UNCHANGED <<geom, src, depth, root>>

Tile ==
    /\ call.op = "none"
    /\ \E reps \in 1..MaxReps, axis \in 0..2 :
          /\ call' = [op |-> "tile", reps |-> reps, axis |-> axis]
          /\ ret' = [kind |-> "Geometry", v |-> tile(geom, reps, axis).new,
                      view |-> tile(geom, reps, axis).view]
          /\ src' = tile(geom, reps, axis).self
    /\ UNCHANGED <<geom, depth, root>>

Repeat ==
    /\ call.op = "none"
    /\ \E reps \in 1..MaxReps, axis \in 0..2 :
          /\ call' = [op |-> "repeat", reps |-> reps, axis |-> axis]
          /\ ret' = [kind |-> "Geometry", v |-> repeat(geom, reps, axis).new,
                      view |-> repeat(geom, reps, axis).view]
          /\ src' = repeat(geom, reps, axis).self
    /\ UNCHANGED <<geom, depth, root>>

Sub ==
    /\ call.op = "none"
    /\ \E atoms \in IdxArrays(geom.na), cell_ \in CellArgs :
          /\ call' = [op |-> "sub", atoms |-> atoms, cell |-> cell_]
          /\ ret' = [kind |-> "Geometry", v |-> sub(geom, atoms, cell_).new,
                      view |-> sub(geom, atoms, cell_).view]
          /\ src' = sub(geom, atoms, cell_).self
    /\ UNCHANGED <<geom, depth, root>>

\* remove is called with atoms that leave at least one atom
Remove ==
    /\ call.op = "none"
    /\ \E atoms \in IdxArrays(geom.na) :
          /\ Elems(atoms) # 0..(geom.na - 1)
          /\ call' = [op |-> "remove", atoms |-> atoms]
          /\ ret' = [kind |-> "Geometry", v |-> remove(geom, atoms).new,
                      view |-> remove(geom, atoms).view]
          /\ src' = remove(geom, atoms).self
    /\ UNCHANGED <<geom, depth, root>>

Cut ==
    /\ call.op = "none"
    /\ \E seps \in PartsArgs, axis \in 0..2, seg \in SegArgs :
          /\ ~indivisible(geom.na, seps) => WholeCut(geom, seps, axis)
          /\ call' = [op |-> "cut", seps |-> seps, axis |-> axis, seg |-> seg]
          /\ ret' = IF cut(geom, seps, axis, seg).raised
                    THEN [kind |-> "raised", exc |-> "ValueError"]
                    ELSE [kind |-> "Geometry", v |-> cut(geom, seps, axis, seg).new,
                          view |-> cut(geom, seps, axis, seg).view,
                          warned |-> cut(geom, seps, axis, seg).warned]
          /\ src' = cut(geom, seps, axis, seg).self
    /\ UNCHANGED <<geom, depth, root>>

Copy ==
    /\ call.op = "none"
    /\ call' = [op |-> "copy"]
    /\ ret' = [kind |-> "Geometry", v |-> copy(geom).new, view |-> copy(geom).view]
    /\ src' = copy(geom).self
    /\ UNCHANGED <<geom, depth, root>>

Translate ==
    /\ call.op = "none"
    /\ \E v \in Displacements, atoms \in IdxArgs(geom) :
          /\ call' = [op |-> "translate", v |-> v, atoms |-> atoms]
          /\ ret' = [kind |-> "Geometry", v |-> translate(geom, v, atoms).new,
                      view |-> translate(geom, v, atoms).view]
          /\ src' = translate(geom, v, atoms).self
    /\ UNCHANGED <<geom, depth, root>>

\* call.after is the argument other as it is after the call
AppendOther ==
    /\ call.op = "none"
    /\ \E other \in Others, axis \in 0..2 :
          /\ call' = [op |-> "append", other |-> other, axis |-> axis,
                      after |-> append(geom, other, axis).other]
          /\ ret' = [kind |-> "Geometry", v |-> append(geom, other, axis).new,
                      view |-> append(geom, other, axis).view]
          /\ src' = append(geom, other, axis).self
    /\ UNCHANGED <<geom, depth, root>>

Reverse ==
    /\ call.op = "none"
    /\ \E atoms \in IdxArgs(geom) :
          /\ call' = [op |-> "reverse", atoms |-> atoms]
          /\ ret' = [kind |-> "Geometry", v |-> reverse(geom, atoms).new,
                      view |-> reverse(geom, atoms).view]
          /\ src' = reverse(geom, atoms).self
    /\ UNCHANGED <<geom, depth, root>>

Mirror ==
    /\ call.op = "none"
    /\ \E plane \in Planes, atoms \in IdxArgs(geom) :
          /\ call' = [op |-> "mirror", plane |-> plane, atoms |-> atoms]
          /\ ret' = [kind |-> "Geometry",
                      v |-> mirror(geom, sorted_lower(plane), atoms).new,
                      view |-> mirror(geom, sorted_lower(plane), atoms).view]
          /\ src' = mirror(geom, sorted_lower(plane), atoms).self
    /\ UNCHANGED <<geom, depth, root>>

Insert ==
    /\ call.op = "none"
    /\ \E atom \in 0..geom.na, other \in Others :
          /\ call' = [op |-> "insert", atom |-> atom, other |-> other,
                      after |-> insert(geom, atom, other).other]
          /\ ret' = [kind |-> "Geometry", v |-> insert(geom, atom, other).new,
                      view |-> insert(geom, atom, other).view]
          /\ src' = insert(geom, atom, other).self
    /\ UNCHANGED <<geom, depth, root>>

\* a Geometry is constructed without a cell
Construct ==
    /\ call.op = "none"
    /\ \E xyz \in BootCoords :
          /\ call' = [op |-> "Geometry", xyz |-> xyz]
          /\ ret' = [kind |-> "Geometry", v |-> GeometryNoCell(xyz, Arr1(AtomH))]
    /\ UNCHANGED <<geom, src, depth, root>>

\* iter_block is called: the generator is returned, nothing has run yet
IterBlock ==
    /\ call.op = "none"
    /\ \E iR \in RangeArgs, dR \in BlockRadiusArgs :
          call' = [op |-> "iter_block", iR |-> iR, dR |-> dR]
    /\ ret' = iter_block(geom)
    /\ UNCHANGED <<geom, src, depth, root>>

\* next() on the generator: while atoms are left, one pass of the loop on an
\* element the shuffle picks among those not passed; else the end
IterNext ==
    /\ call.op = "iter_block"
    /\ ret.state = "suspended"
    /\ IF ret.not_passed_N > 0
       THEN \E idx \in {i \in DOMAIN ret.not_passed : ret.not_passed[i]} :
               ret' = iter_block_pass(geom, ret, call.iR, call.dR, idx)
       ELSE ret' = iter_block_end(ret)
    /\ UNCHANGED <<geom, src, call, depth, root>>

\* bond_correct called on the Geometry a transform returned, or on the one
\* the transform was called on: it writes self.xyz[ia,:] in place, and the
\* write shows in every Geometry whose coordinates are stored in that array.
\* call.before holds the coordinates of the other Geometry before the write.
BondCorrect ==
    /\ call.op \in Transforms
    /\ ret.kind = "Geometry"
    /\ \E p \in Corrected :
          \/ \E ia \in DOMAIN ret.v.xyz :
                /\ call' = [op |-> "bond_correct", on |-> "result", ia |-> ia,
                            before |-> src.xyz, prev |-> call]
                /\ ret' = [ret EXCEPT !.v.xyz[ia] = p]
                /\ src' = IF ret.view.kind = "None" THEN src
                          ELSE [src EXCEPT !.xyz[ret.view.v[ia]] = p]
          \/ \E ia \in DOMAIN src.xyz :
                /\ call' = [op |-> "bond_correct", on |-> "input", ia |-> ia,
                            before |-> ret.v.xyz, prev |-> call]
                /\ src' = [src EXCEPT !.xyz[ia] = p]
                /\ ret' = IF ret.view.kind = "None" THEN ret
                          ELSE [ret EXCEPT !.v.xyz =
                                   [j \in DOMAIN ret.v.xyz |->
                                       IF ret.view.v[j] = ia THEN p
                                       ELSE ret.v.xyz[j]]]
    /\ UNCHANGED <<geom, depth, root>>

\* the caller takes the result; the object is ready for the next call
Return ==
    /\ call.op # "none"
    /\ call' = NoCall
    /\ ret' = NoneVal
    /\ src' = geom
    /\ UNCHANGED <<geom, depth, root>>

Next ==
    \/ A2O
    \/ A2OAll
    \/ O2A
    \/ CloseSc
    \/ Close
    \/ Tile
    \/ Repeat
    \/ Sub
    \/ Remove
    \/ Cut
    \/ Copy
    \/ Translate
    \/ AppendOther
    \/ Reverse
    \/ Mirror
    \/ Insert
    \/ BondCorrect
    \/ Construct
    \/ IterBlock
    \/ IterNext
    \/ Return

Spec == Init /\ [][Next]_vars

---------------------------------------------------------------------------
(* Chains of transforms: in SpecChain each transform is called on the      *)
(* result of the one before, g.repeat(n, 0).repeat(m, 1); call.prev is the *)
(* call before.                                                            *)

ChainTile ==
    /\ depth < MaxDepth
    /\ \E reps \in 1..MaxReps, axis \in 0..2 :
          /\ geom.na * reps <= MaxAtoms
          /\ call' = [op |-> "tile", reps |-> reps, axis |-> axis, prev |-> call]
          /\ geom' = tile(geom, reps, axis).new
          /\ src' = tile(geom, reps, axis).self
    /\ ret' = [kind |-> "Geometry"]
    /\ depth' = depth + 1
    /\ UNCHANGED root

ChainRepeat ==
    /\ depth < MaxDepth
    /\ \E reps \in 1..MaxReps, axis \in 0..2 :
          /\ geom.na * reps <= MaxAtoms
          /\ call' = [op |-> "repeat", reps |-> reps, axis |-> axis, prev |-> call]
          /\ geom' = repeat(geom, reps, axis).new
          /\ src' = repeat(geom, reps, axis).self
    /\ ret' = [kind |-> "Geometry"]
    /\ depth' = depth + 1
    /\ UNCHANGED root

\* cut called on the result of the transform before, with a number of parts
\* that divides the number of atoms; ret records whether the warning was issued
ChainCut ==
    /\ depth < MaxDepth
    /\ \E seps \in PartsArgs, axis \in 0..2, seg \in 0..1 :
          /\ seg < seps
          /\ ~indivisible(geom.na, seps)
          /\ WholeCut(geom, seps, axis)
          /\ call' = [op |-> "cut", seps |-> seps, axis |-> axis, seg |-> seg,
                      prev |-> call]
          /\ geom' = cut(geom, seps, axis, seg).new
          /\ src' = cut(geom, seps, axis, seg).self
          /\ ret' = [kind |-> "Geometry", warned |-> cut(geom, seps, axis, seg).warned]
    /\ depth' = depth + 1
    /\ UNCHANGED root

\* the index arrays of a chain: the last atom, and the last and the first
ChainIdx(self) ==
    {Arr1(self.na - 1)} \cup (IF self.na >= 2 THEN {Arr2(self.na - 1, 0)} ELSE {})

ChainSub ==
    /\ depth < MaxDepth
    /\ \E atoms \in ChainIdx(geom) :
          /\ call' = [op |-> "sub", atoms |-> atoms, prev |-> call]
          /\ geom' = sub(geom, atoms, NoneVal).new
          /\ src' = sub(geom, atoms, NoneVal).self
    /\ ret' = [kind |-> "Geometry"]
    /\ depth' = depth + 1
    /\ UNCHANGED root

ChainRemove ==
    /\ depth < MaxDepth
    /\ geom.na >= 2
    /\ \E atoms \in {Arr1(0)} :
          /\ call' = [op |-> "remove", atoms |-> atoms, prev |-> call]
          /\ geom' = remove(geom, atoms).new
          /\ src' = remove(geom, atoms).self
    /\ ret' = [kind |-> "Geometry"]
    /\ depth' = depth + 1
    /\ UNCHANGED root

ChainAppend ==
    /\ depth < MaxDepth
    /\ \E other \in Others, axis \in {1} :
          /\ geom.na + other.na <= MaxAtoms
          /\ call' = [op |-> "append", other |-> other, axis |-> axis, prev |-> call]
          /\ geom' = append(geom, other, axis).new
          /\ src' = append(geom, other, axis).self
    /\ ret' = [kind |-> "Geometry"]
    /\ depth' = depth + 1
    /\ UNCHANGED root

ChainInsert ==
    /\ depth < MaxDepth
    /\ \E atom \in {geom.na \div 2}, other \in {TwoSpecies(Vec(3, 1, 1))} :
          /\ geom.na + other.na <= MaxAtoms
          /\ call' = [op |-> "insert", atom |-> atom, other |-> other, prev |-> call]
          /\ geom' = insert(geom, atom, other).new
          /\ src' = insert(geom, atom, other).self
    /\ ret' = [kind |-> "Geometry"]
    /\ depth' = depth + 1
    /\ UNCHANGED root

ChainReverse ==
    /\ depth < MaxDepth
    /\ \E atoms \in {NoneVal, Array(Arr2(0, geom.na - 1))} :
          /\ call' = [op |-> "reverse", atoms |-> atoms, prev |-> call]
          /\ geom' = reverse(geom, atoms).new
          /\ src' = reverse(geom, atoms).self
    /\ ret' = [kind |-> "Geometry"]
    /\ depth' = depth + 1
    /\ UNCHANGED root

ChainTranslate ==
    /\ depth < MaxDepth
    /\ \E v \in Displacements, atoms \in {Array(Arr1(0))} :
          /\ call' = [op |-> "translate", v |-> v, atoms |-> atoms, prev |-> call]
          /\ geom' = translate(geom, v, atoms).new
          /\ src' = translate(geom, v, atoms).self
    /\ ret' = [kind |-> "Geometry"]
    /\ depth' = depth + 1
    /\ UNCHANGED root

ChainMirror ==
    /\ depth < MaxDepth
    /\ \E plane \in {<<"x", "y">>, <<"z", "y">>} :
          /\ call' = [op |-> "mirror", plane |-> plane, atoms |-> NoneVal,
                      prev |-> call]
          /\ geom' = mirror(geom, sorted_lower(plane), NoneVal).new
          /\ src' = mirror(geom, sorted_lower(plane), NoneVal).self
    /\ ret' = [kind |-> "Geometry"]
    /\ depth' = depth + 1
    /\ UNCHANGED root

NextChain ==
    \/ ChainTile
    \/ ChainRepeat
    \/ ChainCut
    \/ ChainSub
    \/ ChainRemove
    \/ ChainAppend
    \/ ChainInsert
    \/ ChainReverse
    \/ ChainTranslate
    \/ ChainMirror

SpecChain == Init /\ [][NextChain]_vars

---------------------------------------------------------------------------
(* Index mapper: the round trips of a2o and o2a.                           *)

\* the valid supercell-qualified atom indices of a Structure
AtomIndices(self) == 0..(self.na * n_s(self.sc) - 1)

\* C1: for every valid supercell-qualified atom index a, o2a called on the
\* orbital a2o(a) returns a itself: the atom a % na in the replica a // na.
C1_RoundTrip ==
    call.op = "o2a" =>
        \A a \in AtomIndices(geom) :
            a2o(geom, a) = call.io =>
                /\ ret.kind = "array"
                /\ ret.v = Arr1(a)
                /\ ret.v[0] % geom.na = a % geom.na
                /\ ret.v[0] \div geom.na = a \div geom.na

\* C1 happens: o2a is called on the first orbital of an atom of a replica
\* other than the home cell, in a Structure whose atoms differ in orbitals
C1_Witness ==
    /\ call.op = "o2a"
    /\ \E i, j \in DOMAIN geom.atoms : geom.atoms[i].orbs # geom.atoms[j].orbs
    /\ \E a \in AtomIndices(geom) :
          /\ a >= geom.na
          /\ a % geom.na > 0
          /\ a2o(geom, a) = call.io
          /\ ret.v = Arr1(a)

\* C2: for every valid supercell-qualified orbital index o, o2a(o) is
\* (k-1) + (o // no)*na for the smallest k with lasto[k] > o % no; the atom A
\* returned owns o, a2o(A) <= o < a2o(A) + orbs of atom A % na, and lies in
\* the replica of o.
C2_OrbitalToAtom ==
    call.op = "o2a" =>
        LET o == call.io
            k == CHOOSE k \in 0..geom.na :
                     /\ geom.lasto[k] > o % geom.no
                     /\ \A l \in 0..geom.na : geom.lasto[l] > o % geom.no => k <= l
            A == ret.v[0]
        IN /\ ret.kind = "array"
           /\ ret.v = Arr1((k - 1) + (o \div geom.no) * geom.na)
           /\ a2o(geom, A) <= o
           /\ o < a2o(geom, A) + geom.atoms[A % geom.na].orbs
           /\ A \div geom.na = o \div geom.no

\* C2 happens: o2a is called on an orbital that is not the first of its atom,
\* in a replica other than the home cell
C2_Witness ==
    /\ call.op = "o2a"
    /\ call.io >= geom.no
    /\ ret.kind = "array"
    /\ a2o(geom, ret.v[0]) < call.io
    /\ ret.v[0] % geom.na > 0

---------------------------------------------------------------------------
(* Neighbour search: shells, replicas and the two-atom scenario.           *)

\* the candidates of a search: all atoms, or the members of idx in its order
Candidates(self, idx) == IF idx.kind = "None" THEN np_arange(self.na) ELSE idx.v

\* the squared distance of candidate atom ia, shifted into replica isc, from
\* the query
Dist2(self, xyz_ia, isc, ia) ==
    LET q == IF xyz_ia.kind = "int" THEN self.xyz[xyz_ia.ia] ELSE xyz_ia.p
        d == VSub(VAdd(self.xyz[ia], offset(self.sc, isc)), q)
    IN d[0] * d[0] + d[1] * d[1] + d[2] * d[2]

\* the candidates at a distance d with lo < d <= hi (lo = -1 for none), for
\* radii that are not negative
ShellOf(self, xyz_ia, isc, idx, lo, hi) ==
    LET cand == Candidates(self, idx)
    IN Take(cand, np_where([j \in DOMAIN cand |->
           LET d2 == Dist2(self, xyz_ia, isc, cand[j])
           IN (lo >= 0 => d2 > lo * lo) /\ d2 <= hi * hi]))

\* C3: for ascending radii r0 < ... < rk, close_sc returns the k+1 groups
\* {d <= r0}, {r0 < d <= r1}, ..., {r(k-1) < d <= rk}; they are pairwise
\* disjoint, their union is what the single-radius call with rk returns, and
\* with a candidate restriction every index returned is one of the restriction.
C3_ShellPartition ==
    (/\ call.op = "close_sc"
     /\ call.dR.kind = "array"
     /\ Size(call.dR.v) > 1
     /\ Ascending(call.dR.v)) =>
        LET r == call.dR.v
            k == Size(r) - 1
            single == close_sc(geom, call.xyz_ia, call.isc, Array(Arr1(r[k])), call.idx)
        IN /\ ret.kind = "list"
           /\ Size(ret.v) = k + 1
           /\ \A i \in 0..k :
                 ret.v[i] = ShellOf(geom, call.xyz_ia, call.isc, call.idx,
                                    IF i = 0 THEN -1 ELSE r[i - 1], r[i])
           /\ \A i, j \in 0..k : i # j => Elems(ret.v[i]) \cap Elems(ret.v[j]) = {}
           /\ single.kind = "array"
           /\ UNION {Elems(ret.v[i]) : i \in 0..k} = Elems(single.v)
           /\ call.idx.kind = "array" =>
                 \A i \in 0..k : Elems(ret.v[i]) \subseteq Elems(call.idx.v)

\* C3 happens: three shells of a replica other than the home cell, searched
\* among a restriction, two of them not empty, one atom exactly on a radius
C3_Witness ==
    /\ call.op = "close_sc"
    /\ call.isc # Vec(0, 0, 0)
    /\ call.dR.kind = "array"
    /\ call.dR.v = Arr3(4, 5, 6)
    /\ call.idx.kind = "array"
    /\ ret.kind = "list"
    /\ \E i, j \in DOMAIN ret.v : i # j /\ Size(ret.v[i]) > 0 /\ Size(ret.v[j]) > 0
    /\ \E ia \in Elems(call.idx.v) : Dist2(geom, call.xyz_ia, call.isc, ia) = 25

\* the concatenation, over the replicas 0..n-1 in their order, of the indices
\* close_sc returns for the replica (its group i when i >= 0), each with
\* s*na added
RECURSIVE ReplicaConcat(_, _, _, _, _, _)
ReplicaConcat(self, n, xyz_ia, dR, idx, i) ==
    IF n = 0 THEN Empty
    ELSE LET sret == close_sc(self, xyz_ia, sc_off(self.sc)[n - 1], dR, idx)
             one == IF i < 0 THEN sret.v ELSE sret.v[i]
         IN np_append(ReplicaConcat(self, n - 1, xyz_ia, dR, idx, i),
                      Shift(one, self.na * (n - 1)))

\* C4: close(query, dR=r) is the concatenation over the replicas, in their
\* order, of close_sc(query, sc_off[s], r) with s*na added, the empty index
\* sequence when no replica holds a match; with several radii the same holds
\* for every shell group.
C4_ReplicaAdditivity ==
    (/\ call.op = "close"
     /\ call.dR.kind = "array"
     /\ Ascending(call.dR.v)) =>
        IF Size(call.dR.v) = 1
        THEN /\ ret.kind = "array"
             /\ ret.v = ReplicaConcat(geom, n_s(geom.sc), call.xyz_ia, call.dR,
                                      call.idx, -1)
        ELSE /\ ret.kind = "list"
             /\ Size(ret.v) = Size(call.dR.v)
             /\ \A i \in DOMAIN ret.v :
                   ret.v[i] = ReplicaConcat(geom, n_s(geom.sc), call.xyz_ia,
                                            call.dR, call.idx, i)

\* the two-atom Structure of the scenarios: atoms at (0,0,0) and (0.5,0,0) in
\* the unit cube
IsTwoAtomExample(self) ==
    /\ self.xyz = Arr2(Vec(0, 0, 0), Vec(5, 0, 0))
    /\ self.sc.cell = Cubic

\* close_sc is called on the example for atom 0 in the home replica with the
\* one radius r and no restriction
ScenarioCall(r) ==
    /\ IsTwoAtomExample(geom)
    /\ call.op = "close_sc"
    /\ call.xyz_ia = [kind |-> "int", ia |-> 0]
    /\ call.isc = Vec(0, 0, 0)
    /\ call.idx.kind = "None"
    /\ call.dR.kind = "array"
    /\ call.dR.v = Arr1(r)

\* C5 as the spec states it: radius 0.6 returns exactly atom 1, radius 0.4
\* returns no atoms.
C5_AsStated ==
    /\ ScenarioCall(6) => ret.kind = "array" /\ ret.v = Arr1(1)
    /\ ScenarioCall(4) => ret.kind = "array" /\ ret.v = Empty

\* C5, amended: the query atom is at distance 0 of itself, so radius 0.6
\* returns atoms 0 and 1 and radius 0.4 returns atom 0 alone.
C5_Scenario ==
    /\ ScenarioCall(6) => ret.kind = "array" /\ ret.v = Arr2(0, 1)
    /\ ScenarioCall(4) => ret.kind = "array" /\ ret.v = Arr1(0)

\* C5 happens: the scenario's call with radius 0.6 has returned
C5_Witness == ScenarioCall(6) /\ ret.kind = "array" /\ Size(ret.v) = 2

---------------------------------------------------------------------------
(* Lattice transforms: tile, repeat, sub and remove.                       *)

\* C6: tile(reps, axis) returns reps*na atoms; for every copy k and every
\* atom i, atom k*na + i is at xyz[i] + k*cell[axis] and has the species of
\* atom i; the cell's row axis is multiplied by reps, the other rows are
\* kept.  The two-atom example tiled twice along axis 0 has the
\* x-coordinates 0, 0.5, 1, 1.5 and a cell of x-length 2.
C6_Tile ==
    call.op = "tile" =>
        LET g == ret.v
            reps == call.reps
            axis == call.axis
        IN /\ ret.kind = "Geometry"
           /\ g.na = reps * geom.na
           /\ Size(g.xyz) = reps * geom.na
           /\ Size(g.atoms) = reps * geom.na
           /\ \A k \in 0..(reps - 1) : \A i \in 0..(geom.na - 1) :
                 /\ g.xyz[k * geom.na + i]
                       = VAdd(geom.xyz[i], VScale(k, geom.sc.cell[axis]))
                 /\ g.atoms[k * geom.na + i] = geom.atoms[i]
           /\ \A i \in 0..2 :
                 g.sc.cell[i] = IF i = axis THEN VScale(reps, geom.sc.cell[i])
                                ELSE geom.sc.cell[i]
           /\ (IsTwoAtomExample(geom) /\ reps = 2 /\ axis = 0) =>
                 /\ g.na = 4
                 /\ [j \in 0..3 |-> g.xyz[j][0]]
                       = [j \in 0..3 |-> IF j = 0 THEN 0 ELSE IF j = 1 THEN 5
                                         ELSE IF j = 2 THEN 10 ELSE 15]
                 /\ g.sc.cell[0] = Vec(20, 0, 0)

\* C6 happens: a Structure of three species is tiled twice along the cell
\* vector that is not a Cartesian axis
C6_Witness ==
    /\ call.op = "tile"
    /\ call.reps = 2
    /\ call.axis = 1
    /\ geom.na = 3
    /\ geom.sc.cell = Skew
    /\ ret.kind = "Geometry"
    /\ ret.v.na = 6
    /\ ret.v.xyz[5] = Vec(8, 14, 0)

\* C7: repeat(reps, axis) has the atoms and the cell of tile(reps, axis),
\* interleaved: atom i*reps + k of repeat is atom k*na + i of tile, at
\* xyz[i] + k*cell[axis] with the species of atom i; for a single atom tile and
\* repeat return the same coordinates in the same order.
C7_Repeat ==
    call.op = "repeat" =>
        LET r == ret.v
            reps == call.reps
            axis == call.axis
            t == tile(geom, reps, axis).new
        IN /\ ret.kind = "Geometry"
           /\ r.na = t.na
           /\ r.sc.cell = t.sc.cell
           /\ \A i \in 0..(geom.na - 1) : \A k \in 0..(reps - 1) :
                 /\ r.xyz[i * reps + k] = t.xyz[k * geom.na + i]
                 /\ r.atoms[i * reps + k] = t.atoms[k * geom.na + i]
                 /\ r.xyz[i * reps + k]
                       = VAdd(geom.xyz[i], VScale(k, geom.sc.cell[axis]))
                 /\ r.atoms[i * reps + k] = geom.atoms[i]
           /\ geom.na = 1 => r.xyz = t.xyz

\* C7 happens: a Structure of three species is repeated twice
C7_Witness ==
    /\ call.op = "repeat"
    /\ call.reps = 2
    /\ call.axis = 1
    /\ geom.na = 3
    /\ ret.kind = "Geometry"
    /\ ret.v.xyz[1] = Vec(5, 10, 0)
    /\ ret.v.xyz # tile(geom, 2, 1).new.xyz

\* the coordinates the docstring of repeat prints for
\* geom.repeat(2,0).repeat(2,1)
DocRepeatTwice ==
    [j \in 0..7 |->
        Vec((IF j >= 4 THEN 5 ELSE 0) + (IF j % 2 = 1 THEN 10 ELSE 0),
            IF (j \div 2) % 2 = 1 THEN 10 ELSE 0, 0)]

\* C8: g.repeat(n, 0).repeat(m, 1) emits the n*m copies of each atom
\* consecutively, the copy along axis 0 varying fastest; for the two-atom
\* example and n = m = 2 the order is (0,0,0), (1,0,0), (0,1,0), (1,1,0),
\* (0.5,0,0), (1.5,0,0), (0.5,1,0), (1.5,1,0).
C8_RepeatTwice ==
    (/\ depth = 2
     /\ call.op = "repeat" /\ call.axis = 1
     /\ call.prev.op = "repeat" /\ call.prev.axis = 0) =>
        LET n == call.prev.reps
            m == call.reps
        IN /\ geom.na = root.na * n * m
           /\ \A i \in 0..(root.na - 1), k0 \in 0..(n - 1), k1 \in 0..(m - 1) :
                 geom.xyz[i * n * m + k1 * n + k0]
                    = VAdd(root.xyz[i], VAdd(VScale(k0, root.sc.cell[0]),
                                             VScale(k1, root.sc.cell[1])))
           /\ (IsTwoAtomExample(root) /\ n = 2 /\ m = 2) =>
                 geom.xyz = DocRepeatTwice

\* C9: sub(indices) with unique indices returns a Structure of len(indices)
\* atoms, atom j with the coordinate and the species of atom indices[j]; its
\* cell is that of the source when none is passed and the passed cell
\* otherwise; the source's coordinates, species and cell are unchanged.
C9_Sub ==
    (call.op = "sub" /\ IsUnique(call.atoms)) =>
        /\ ret.kind = "Geometry"
        /\ ret.v.na = Size(call.atoms)
        /\ Size(ret.v.xyz) = Size(call.atoms)
        /\ Size(ret.v.atoms) = Size(call.atoms)
        /\ \A j \in DOMAIN call.atoms :
              /\ ret.v.xyz[j] = geom.xyz[call.atoms[j]]
              /\ ret.v.atoms[j] = geom.atoms[call.atoms[j]]
        /\ call.cell.kind = "None" => ret.v.sc = geom.sc
        /\ call.cell.kind # "None" => ret.v.sc = call.cell.v
        /\ src.xyz = geom.xyz
        /\ src.atoms = geom.atoms
        /\ src.sc = geom.sc

\* C9 happens: two atoms of different species are taken in descending order
\* of index, with a cell passed
C9_Witness ==
    /\ call.op = "sub"
    /\ Size(call.atoms) = 2
    /\ call.atoms[0] > call.atoms[1]
    /\ geom.atoms[call.atoms[0]] # geom.atoms[call.atoms[1]]
    /\ call.cell.kind # "None"
    /\ ret.kind = "Geometry"
    /\ ret.v.atoms[0] = geom.atoms[call.atoms[0]]
    /\ ret.v.sc # geom.sc

\* C10: sub or remove called with an index sequence that holds an index
\* twice fails: it returns no Structure.
C10_DuplicateFails ==
    (call.op \in {"sub", "remove"} /\ ~IsUnique(call.atoms)) =>
        ret.kind = "raised"

---------------------------------------------------------------------------
(* Neighbour search: the usage errors.                                     *)

\* C11: close_sc and close called with more than one radius, a later radius
\* less than or equal to an earlier one, fail with a usage error: no shell
\* groups are returned.
C11_NotAscendingFails ==
    (/\ call.op \in {"close_sc", "close"}
     /\ call.dR.kind = "array"
     /\ Size(call.dR.v) > 1
     /\ ~Ascending(call.dR.v)) =>
        ret.kind = "raised"

\* the species of a Structure carry cutoff data: some range is not negative
HasCutoff(self) == \E i \in DOMAIN self.atoms : self.atoms[i].dR >= 0

\* C12: close_sc and close called with no radius search with the Structure's
\* maximum cutoff, and fail when the species carry no cutoff data.
C12_DefaultRadius ==
    (call.op \in {"close_sc", "close"} /\ call.dR.kind = "None") =>
        IF HasCutoff(geom)
        THEN ret = IF call.op = "close_sc"
                   THEN close_sc(geom, call.xyz_ia, call.isc, Array(Arr1(geom.dR)),
                                 call.idx)
                   ELSE close(geom, call.xyz_ia, Array(Arr1(geom.dR)), call.idx)
        ELSE ret.kind = "raised"

---------------------------------------------------------------------------
(* Lattice transforms: cut.                                                *)

C14_CutInverse ==
    call.op = "cut" =>
        /\ ret.kind = "Geometry"
        /\ ret.warned <=> tile(geom, call.seps, call.axis).new.xyz # src.xyz
        /\ (/\ depth = 2
            /\ call.prev.op = "tile"
            /\ call.prev.reps = call.seps
            /\ call.prev.axis = call.axis
            /\ call.seg = 0) =>
               /\ geom.xyz = root.xyz
               /\ geom.atoms = root.atoms
               /\ geom.sc = root.sc
               /\ tile(geom, call.seps, call.axis).new.xyz = src.xyz
               /\ ~ret.warned

\* C14 happens: a Structure of three species tiled twice is cut in two along
\* the axis it was tiled along
C14_Witness ==
    /\ call.op = "cut"
    /\ depth = 2
    /\ call.prev.op = "tile"
    /\ call.prev.reps = 2
    /\ call.seps = 2
    /\ call.prev.axis = call.axis
    /\ call.seg = 0
    /\ root.na = 3
    /\ src.na = 6
    /\ ~ret.warned
    /\ geom.xyz = root.xyz

\* C15: cut on a Structure whose atom count is not divisible by parts fails
\* with a usage error: no Structure is returned and the source is unchanged.
C15_CutIndivisibleFails ==
    (call.op = "cut" /\ geom.na % call.seps # 0) =>
        /\ ret.kind = "raised"
        /\ ret.exc = "ValueError"
        /\ src = geom

\* C15 happens: a Structure of three atoms was asked to be cut in two
C15_Witness ==
    /\ call.op = "cut"
    /\ geom.na = 3
    /\ call.seps = 2
    /\ ret.kind = "raised"

---------------------------------------------------------------------------
(* The derived fields of a Structure.                                      *)

\* the derived fields of g are those its species give
DerivedFields(g) ==
    /\ Size(g.xyz) = g.na
    /\ Size(g.atoms) = g.na
    /\ DOMAIN g.lasto = 0..g.na
    /\ g.lasto[0] = 0
    /\ \A i \in 0..(g.na - 1) : g.lasto[i + 1] - g.lasto[i] = g.atoms[i].orbs
    /\ g.no = g.lasto[g.na]
    /\ \E i \in DOMAIN g.atoms : g.dR = g.atoms[i].dR
    /\ \A i \in DOMAIN g.atoms : g.atoms[i].dR <= g.dR

\* C16: in every Structure produced by a sequence of tile, repeat, sub,
\* remove, cut, append, insert, reverse, translate and mirror, xyz and atoms
\* have na entries, lasto has na+1 entries, starts at 0 and grows by the
\* orbitals of each atom, no is lasto[na] and dR is the largest range of the
\* species present; tile and repeat give reps * no orbitals, append gives
\* the sum of the orbitals of the two Structures.
C16_DerivedFields ==
    /\ DerivedFields(geom)
    /\ call.op \in {"tile", "repeat"} => geom.no = call.reps * src.no
    /\ call.op = "append" => geom.no = src.no + call.other.no

\* C16 happens: a Structure of another species was appended and one atom of
\* the result taken: the range and the orbitals shrink
C16_Witness ==
    /\ depth = 2
    /\ call.op = "sub"
    /\ call.prev.op = "append"
    /\ geom.dR < src.dR
    /\ geom.no < src.no
    /\ geom.na < src.na

---------------------------------------------------------------------------
(* Ownership of the coordinates.                                           *)

\* C17: every transform returns a Structure whose coordinates are not stored
\* with those of its input: a write in place on the result leaves the
\* coordinates of the input as they were, and a write in place on the input
\* leaves those of the result as they were.
C17_NoSharedStorage ==
    call.op = "bond_correct" =>
        /\ call.on = "result" => src.xyz = call.before
        /\ call.on = "input" => ret.v.xyz = call.before

---------------------------------------------------------------------------
(* The block iterator.                                                     *)

\* the atoms to loop of batch k
Looped(gen, k) == gen.yielded[k].ias

\* C18: whatever elements the shuffle picks, the atoms to loop of the batches
\* yielded never overlap and none holds an atom twice; the counter of
\* unvisited atoms is the number of atoms flagged as not passed; a run that
\* ends has yielded every atom 0..na-1 exactly once, and a run cannot end
\* with an atom unvisited without raising.
C18_BlockPartition ==
    call.op = "iter_block" =>
        /\ ret.kind = "generator"
        /\ ret.not_passed_N
              = Cardinality({i \in DOMAIN ret.not_passed : ret.not_passed[i]})
        /\ \A k \in DOMAIN ret.yielded : IsUnique(Looped(ret, k))
        /\ \A k, l \in DOMAIN ret.yielded :
              k # l => Elems(Looped(ret, k)) \cap Elems(Looped(ret, l)) = {}
        /\ \A i \in DOMAIN ret.not_passed :
              ret.not_passed[i] <=>
                  ~\E k \in DOMAIN ret.yielded : i \in Elems(Looped(ret, k))
        /\ ret.state = "done" =>
              /\ UNION {Elems(Looped(ret, k)) : k \in DOMAIN ret.yielded}
                    = 0..(geom.na - 1)
              /\ \A i \in DOMAIN ret.not_passed : ~ret.not_passed[i]

\* C18 happens: a run over three atoms with replicas has ended after more
\* than one batch, the first of them not starting at atom 0
C18_Witness ==
    /\ call.op = "iter_block"
    /\ geom.na = 3
    /\ n_s(geom.sc) > 1
    /\ ret.state = "done"
    /\ Size(ret.yielded) > 1
    /\ 0 \notin Elems(Looped(ret, 0))

---------------------------------------------------------------------------
(* Construction without a cell.                                            *)

\* the atoms at a distance d of atom 0 with 0.4 < d <= 5
BootShell(xyz) ==
    {j \in DOMAIN xyz : LET d2 == norm2(VSub(xyz[j], xyz[0]))
                        IN 16 < d2 /\ d2 <= 2500}

\* the displacements from atom 0 of the atoms of the shell, projected on
\* axis i, that are at least 0.4
Projections(xyz, i) ==
    {np_abs(xyz[j][i] - xyz[0][i]) : j \in BootShell(xyz)} \ (0..3)

\* the span of the coordinates along axis i
Span(xyz, i) ==
    LET col == {xyz[k][i] : k \in DOMAIN xyz}
    IN (CHOOSE m \in col : \A x \in col : x <= m)
       - (CHOOSE m \in col : \A x \in col : m <= x)

\* the length the bootstrap is to give axis i
BootLength(xyz, i) ==
    IF Projections(xyz, i) # {}
    THEN Span(xyz, i) + CHOOSE m \in Projections(xyz, i) :
                            \A x \in Projections(xyz, i) : m <= x
    ELSE IF Span(xyz, i) > 100 THEN Span(xyz, i) ELSE 100

\* C19: a Structure constructed without a cell gets, for each Cartesian axis,
\* the span plus the smallest projected displacement of at least 0.4 among
\* the atoms of the (0.4, 5] shell of atom 0, and max(10, span) when no atom
\* qualifies on the axis, the shell being empty included.
C19_BootstrapCell ==
    call.op = "Geometry" =>
        /\ ret.kind = "Geometry"
        /\ ret.v.sc.cell = [i \in 0..2 |->
               [c \in 0..2 |-> IF i = c THEN BootLength(call.xyz, i) ELSE 0]]

---------------------------------------------------------------------------
(* Lattice transforms: append.                                             *)

\* C20: append(other, axis) returns na_self + na_other atoms: the atoms of
\* self with their coordinates and species, then the atoms of other, atom j
\* at other.xyz[j] + self.cell[axis] with its species; the cell's row axis is
\* self.cell[axis] + other.cell[axis], the other rows are those of self;
\* neither self nor other is modified.
C20_Append ==
    call.op = "append" =>
        LET g == ret.v
            other == call.other
            axis == call.axis
        IN /\ ret.kind = "Geometry"
           /\ g.na = geom.na + other.na
           /\ Size(g.xyz) = geom.na + other.na
           /\ Size(g.atoms) = geom.na + other.na
           /\ \A i \in 0..(geom.na - 1) :
                 g.xyz[i] = geom.xyz[i] /\ g.atoms[i] = geom.atoms[i]
           /\ \A j \in 0..(other.na - 1) :
                 /\ g.xyz[geom.na + j] = VAdd(other.xyz[j], geom.sc.cell[axis])
                 /\ g.atoms[geom.na + j] = other.atoms[j]
           /\ \A i \in 0..2 :
                 g.sc.cell[i] = IF i = axis
                                THEN VAdd(geom.sc.cell[i], other.sc.cell[i])
                                ELSE geom.sc.cell[i]
           /\ src = geom
           /\ call.after = other

\* C20 happens: a Structure of two species is appended to one of three other
\* species along the cell vector that is not a Cartesian axis
C20_Witness ==
    /\ call.op = "append"
    /\ call.axis = 1
    /\ geom.na = 3
    /\ call.other.na = 2
    /\ geom.sc.cell = Skew
    /\ ret.kind = "Geometry"
    /\ ret.v.xyz[4] = Vec(5, 10, 3)
    /\ ret.v.atoms[4] = AtomH
    /\ ret.v.sc.cell[1] = Vec(5, 20, 0)

---------------------------------------------------------------------------
(* Mirror.                                                                 *)

\* the letters of a plane, whatever their order
PlaneLetters(plane) == {lower(plane[k]) : k \in DOMAIN plane}

\* the coordinate component orthogonal to the named plane, -1 when the
\* letters name no plane
Orthogonal(plane) ==
    IF PlaneLetters(plane) = {"x", "y"} THEN 2
    ELSE IF PlaneLetters(plane) = {"y", "z"} THEN 0
    ELSE IF PlaneLetters(plane) = {"x", "z"} THEN 1 ELSE -1

\* the atoms a subset argument names: all of them when it is None
Subset(self, atoms) ==
    IF atoms.kind = "None" THEN DOMAIN self.xyz ELSE Elems(atoms.v)

\* C21: mirror(plane, subset) negates exactly the coordinate component
\* orthogonal to the named plane (xy -> z, yz -> x, xz -> y, the letters in
\* either order) for the atoms in subset (all atoms when subset is None) and
\* leaves every other component, the coordinates of the atoms outside subset,
\* the species sequence, the atom order and the cell unchanged.
C21_Mirror ==
    (call.op = "mirror" /\ Orthogonal(call.plane) >= 0) =>
        /\ ret.v.na = geom.na
        /\ \A i \in DOMAIN geom.xyz : \A c \in 0..2 :
              ret.v.xyz[i][c] =
                  IF i \in Subset(geom, call.atoms) /\ c = Orthogonal(call.plane)
                  THEN -geom.xyz[i][c] ELSE geom.xyz[i][c]
        /\ ret.v.atoms = geom.atoms
        /\ ret.v.sc = geom.sc

---------------------------------------------------------------------------
(* Reverse.                                                                *)

\* C22: reverse(subset) returns a Structure with the same atom count and
\* cell in which, for a subset [i_1, ..., i_m] of distinct indices, position
\* i_j holds the coordinate and species of source atom i_(m+1-j) and every
\* position outside the subset holds the same coordinate and species as in
\* the source; with no subset position j holds source atom na-1-j,
\* coordinates and species being permuted together.
C22_Reverse ==
    call.op = "reverse" =>
        /\ ret.v.na = geom.na
        /\ ret.v.sc = geom.sc
        /\ call.atoms.kind = "None" =>
              \A j \in DOMAIN geom.xyz :
                  /\ ret.v.xyz[j] = geom.xyz[geom.na - 1 - j]
                  /\ ret.v.atoms[j] = geom.atoms[geom.na - 1 - j]
        /\ (call.atoms.kind = "array" /\ IsUnique(call.atoms.v)) =>
              /\ \A j \in DOMAIN call.atoms.v :
                    /\ ret.v.xyz[call.atoms.v[j]] =
                           geom.xyz[call.atoms.v[Size(call.atoms.v) - 1 - j]]
                    /\ ret.v.atoms[call.atoms.v[j]] =
                           geom.atoms[call.atoms.v[Size(call.atoms.v) - 1 - j]]
              /\ \A i \in DOMAIN geom.xyz \ Elems(call.atoms.v) :
                    /\ ret.v.xyz[i] = geom.xyz[i]
                    /\ ret.v.atoms[i] = geom.atoms[i]

\* a subset of two atoms of different species is reversed in a Structure of
\* three atoms: the two have changed places and the third has not moved
C22_Witness ==
    /\ call.op = "reverse"
    /\ call.atoms.kind = "array"
    /\ geom.na = 3
    /\ call.atoms.v = Arr2(2, 0)
    /\ ret.v.xyz[0] = geom.xyz[2]
    /\ ret.v.atoms[0] = geom.atoms[2]
    /\ ret.v.atoms[0] # geom.atoms[0]
    /\ ret.v.xyz[1] = geom.xyz[1]

---------------------------------------------------------------------------
(* Index mapper: all the orbitals of an atom.                              *)

\* the orbital indices of the supercell-qualified atom ia: the contiguous
\* range that starts at lasto[ia % na] + (ia // na) * no and is as wide as
\* the orbital count of atom ia % na
OrbitalRange(self, ia) ==
    [k \in 0..(self.atoms[ia % self.na].orbs - 1) |->
        self.lasto[ia % self.na] + (ia \div self.na) * self.no + k]

\* the ranges of the indices idx[i], idx[i+1], ... one after the other
RECURSIVE OrbitalRanges(_, _, _)
OrbitalRanges(self, idx, i) ==
    IF i >= Size(idx) THEN Empty
    ELSE np_append(OrbitalRange(self, idx[i]), OrbitalRanges(self, idx, i + 1))

\* the indices a2o(ia, all=True) is asked about
Asked(ia) == IF ia.kind = "int" THEN [k \in {0} |-> ia.ia] ELSE ia.v

\* C23: a2o(ia, all=True) for a supercell-qualified atom index ia (a single
\* index or each index of a list) returns the full ordered contiguous range
\* of orbital indices of that atom: it starts at lasto[ia % na] + (ia // na)*no
\* and is as wide as the orbital count of atom ia % na, also for the last
\* atom of a replica, whose range ends at (ia // na + 1)*no.
C23_AllOrbitals ==
    call.op = "a2o_all" =>
        /\ ret.kind = "array"
        /\ ret.v = OrbitalRanges(geom, Asked(call.ia), 0)
        /\ \A k \in DOMAIN Asked(call.ia) :
              Asked(call.ia)[k] % geom.na = geom.na - 1 =>
                  OrbitalRange(geom, Asked(call.ia)[k])
                      [geom.atoms[geom.na - 1].orbs - 1] + 1
                  = (Asked(call.ia)[k] \div geom.na + 1) * geom.no

---------------------------------------------------------------------------
(* The block iterator ends.                                                *)

\* the search radius of the call: dR, or self.dR when none is passed
SearchRadius(self, dR) == IF dR.kind = "None" THEN self.dR ELSE dR.v

\* iter_block was called with a positive search radius and iR >= 1
PositiveRadius ==
    /\ call.op = "iter_block"
    /\ call.iR >= 1
    /\ SearchRadius(geom, call.dR) > 0

\* C24: with a positive search radius dR and iR >= 1, every pass of the loop
\* yields a batch that is not empty and holds the element the shuffle picked
\* (the internal error is never raised), in every pair yielded the atoms to
\* loop are among the atoms to search, at most na batches are yielded, and
\* the iterator ends: each next() on a generator with atoms left yields one
\* batch and lowers the number of unvisited atoms, and next() on a generator
\* with none left ends it.
C24_Terminates ==
    /\ [](PositiveRadius =>
             /\ ret.state # "raised"
             /\ Size(ret.yielded) <= geom.na
             /\ ret.not_passed_N >= 0
             /\ \A k \in DOMAIN ret.yielded :
                   /\ Size(Looped(ret, k)) > 0
                   /\ Elems(Looped(ret, k)) \subseteq Elems(ret.yielded[k].idxs)
             /\ Size(ret.yielded) > 0 =>
                   ret.idx \in Elems(Looped(ret, Size(ret.yielded) - 1)))
    /\ [][(PositiveRadius /\ call' = call /\ ret.state = "suspended") =>
             IF ret.not_passed_N > 0
             THEN /\ ret'.state = "suspended"
                  /\ Size(ret'.yielded) = Size(ret.yielded) + 1
                  /\ ret'.not_passed_N < ret.not_passed_N
             ELSE ret'.state = "done"]_vars

\* C24 happens: a run with iR = 1 over three atoms has ended after as many
\* batches as there are atoms
C24_Witness ==
    /\ PositiveRadius
    /\ call.iR = 1
    /\ geom.na = 3
    /\ ret.state = "done"
    /\ Size(ret.yielded) = 3

===========================================================================
